---- MODULE Spec2Model ----
(***************************************************************************)
(* Model of db_client.py: the DatabaseClient connection lifecycle, the     *)
(* statement and script execution core, the statement splitter and the     *)
(* result formatter, driven against a small DB-API backend.                *)
(*                                                                         *)
(* Text is modelled as a sequence of one-character strings, so that        *)
(* prefix tests, trimming, splitting and padding are computed character    *)
(* by character as the Python string methods compute them.                 *)
(***************************************************************************)
EXTENDS Integers, Sequences, FiniteSets, TLC

\* ------------------------------------------------------------------ bounds
\* Connections one client opens during a run.
MaxConns == 2
\* Rows the table t may hold.
MaxRows == 1

\* None of Python: a held connection or cursor is a positive connection id.
NoConn == 0

\* ------------------------------------------------------- text of the source
\* connect_database: db_path.startswith(("postgres://", "postgresql://"))
PostgresPrefix ==
    <<"p", "o", "s", "t", "g", "r", "e", "s", ":", "/", "/">>
PostgresqlPrefix ==
    <<"p", "o", "s", "t", "g", "r", "e", "s", "q", "l", ":", "/", "/">>
\* execute_statement: f"Error: {exc}"
ErrorPrefix ==
    <<"E", "r", "r", "o", "r", ":", " ">>
\* execute_statement: f"OK ({affected} rows affected)"
OkPrefix ==
    <<"O", "K", " ", "(">>
OkSuffix ==
    <<" ", "r", "o", "w", "s", " ", "a", "f", "f", "e", "c", "t", "e", "d", ")">>
\* execute_script: f"Error executing script {path}: {exc}"
ScriptErrorPrefix ==
    <<"E", "r", "r", "o", "r", " ", "e", "x", "e", "c", "u", "t", "i", "n", "g", " ", "s", "c", "r", "i", "p", "t", " ">>
ColonSpace ==
    <<":", " ">>
\* execute_script: f"Executed script: {path}"
ScriptOkPrefix ==
    <<"E", "x", "e", "c", "u", "t", "e", "d", " ", "s", "c", "r", "i", "p", "t", ":", " ">>
\* _format_cell: "NULL"
NullText ==
    <<"N", "U", "L", "L">>
\* format_rows: " | " and "-+-"
ColumnSep ==
    <<" ", "|", " ">>
RuleSep ==
    <<"-", "+", "-">>

\* ------------------------------------------------------------ inputs
\* Connection targets handed to DatabaseClient / typed into the GUI.
MemoryTarget ==
    <<":", "m", "e", "m", "o", "r", "y", ":">>
FileTarget ==
    <<"/", "t", "m", "p", "/", "x", ".", "d", "b">>
PostgresTarget ==
    <<"p", "o", "s", "t", "g", "r", "e", "s", ":", "/", "/", "h", "/", "d">>
PostgresqlTarget ==
    <<"p", "o", "s", "t", "g", "r", "e", "s", "q", "l", ":", "/", "/", "h", "/", "d">>
NearMissTarget ==
    <<"p", "o", "s", "t", "g", "r", "e", "s", ":", "/", "h", "/", "d">>
Targets ==
    {MemoryTarget, FileTarget, PostgresTarget, PostgresqlTarget, NearMissTarget}
\* SQL texts handed to run_statement.
CreateSql ==
    <<"C", "R", "E", "A", "T", "E", " ", "T", "A", "B", "L", "E", " ", "t", "(", "x", " ", "I", "N", "T", "E", "G", "E", "R", ")", ";">>
InsertSql ==
    <<"I", "N", "S", "E", "R", "T", " ", "I", "N", "T", "O", " ", "t", " ", "V", "A", "L", "U", "E", "S", " ", "(", "1", ")", ";">>
SelectSql ==
    <<"S", "E", "L", "E", "C", "T", " ", "*", " ", "F", "R", "O", "M", " ", "t", ";">>
DeleteSql ==
    <<"D", "E", "L", "E", "T", "E", " ", "F", "R", "O", "M", " ", "t", ";">>
InvalidSql ==
    <<"S", "E", "L", "E", "C", ";">>
Statements ==
    {CreateSql, InsertSql, SelectSql, DeleteSql, InvalidSql}
\* Script files: two readable ones and a path with no file behind it.
GoodPath ==
    <<"a", ".", "s", "q", "l">>
BadPath ==
    <<"b", ".", "s", "q", "l">>
MissingPath ==
    <<"c", ".", "s", "q", "l">>
GoodScript ==
    <<"C", "R", "E", "A", "T", "E", " ", "T", "A", "B", "L", "E", " ", "t", "(", "x", " ", "I", "N", "T", "E", "G", "E", "R", ")", ";", "\n", "I", "N", "S", "E", "R", "T", " ", "I", "N", "T", "O", " ", "t", " ", "V", "A", "L", "U", "E", "S", " ", "(", "1", ")", ";", "\n", "S", "E", "L", "E", "C", "T", " ", "*", " ", "F", "R", "O", "M", " ", "t">>
BadScript ==
    <<"D", "E", "L", "E", "T", "E", " ", "F", "R", "O", "M", " ", "t", ";", "\n", "S", "E", "L", "E", "C", ";", "\n", "I", "N", "S", "E", "R", "T", " ", "I", "N", "T", "O", " ", "t", " ", "V", "A", "L", "U", "E", "S", " ", "(", "1", ")", ";">>
Paths ==
    {GoodPath, BadPath, MissingPath}
\* Messages of the exceptions the backend and the file system raise.
MsgSyntax ==
    <<"n", "e", "a", "r", " ", "\"", "S", "E", "L", "E", "C", "\"", ":", " ", "s", "y", "n", "t", "a", "x", " ", "e", "r", "r", "o", "r">>
MsgNoTable ==
    <<"n", "o", " ", "s", "u", "c", "h", " ", "t", "a", "b", "l", "e", ":", " ", "t">>
MsgExists ==
    <<"t", "a", "b", "l", "e", " ", "t", " ", "a", "l", "r", "e", "a", "d", "y", " ", "e", "x", "i", "s", "t", "s">>
MsgCommit ==
    <<"c", "o", "m", "m", "i", "t", " ", "f", "a", "i", "l", "e", "d">>
MsgFetch ==
    <<"f", "e", "t", "c", "h", " ", "f", "a", "i", "l", "e", "d">>
MsgOpen ==
    <<"u", "n", "a", "b", "l", "e", " ", "t", "o", " ", "o", "p", "e", "n", " ", "d", "a", "t", "a", "b", "a", "s", "e">>
MsgCursor ==
    <<"c", "u", "r", "s", "o", "r", " ", "f", "a", "i", "l", "e", "d">>
MsgNoFile ==
    <<"N", "o", " ", "s", "u", "c", "h", " ", "f", "i", "l", "e">>

\* ------------------------------------------------- Python string methods
\* Characters str.strip() and str.rstrip() remove when given no argument.
Whitespace == {" ", "\t", "\n", "\r"}

\* str.startswith(prefix)
StartsWith(s, prefix) ==
    /\ Len(s) >= Len(prefix)
    /\ SubSeq(s, 1, Len(prefix)) = prefix

\* str.endswith(suffix)
EndsWith(s, suffix) ==
    /\ Len(s) >= Len(suffix)
    /\ SubSeq(s, Len(s) - Len(suffix) + 1, Len(s)) = suffix

\* str.rstrip(chars): every trailing character of the set is removed.
RECURSIVE RStripChars(_, _)
RStripChars(s, chars) ==
    IF s # <<>> /\ s[Len(s)] \in chars
    THEN RStripChars(SubSeq(s, 1, Len(s) - 1), chars)
    ELSE s

\* str.lstrip(chars): every leading character of the set is removed.
RECURSIVE LStripChars(_, _)
LStripChars(s, chars) ==
    IF s # <<>> /\ s[1] \in chars
    THEN LStripChars(Tail(s), chars)
    ELSE s

\* str.strip()
Strip(s) == LStripChars(RStripChars(s, Whitespace), Whitespace)

\* sep.join(parts)
RECURSIVE Join(_, _)
Join(sep, parts) ==
    IF parts = <<>> THEN <<>>
    ELSE IF Len(parts) = 1 THEN parts[1]
    ELSE parts[1] \o sep \o Join(sep, Tail(parts))

\* str.ljust(width): padded with spaces on the right, never truncated.
LJust(s, width) == s \o [i \in 1..(width - Len(s)) |-> " "]

\* "-" * width
Dashes(width) == [i \in 1..width |-> "-"]

\* The k-th smallest element of a set of numbers.
Nth(S, k) == CHOOSE i \in S : Cardinality({j \in S : j < i}) = k - 1

\* The pieces of s between the positions seps, in order: one more than there
\* are positions.
Pieces(s, seps) ==
    [k \in 1..(Cardinality(seps) + 1) |->
        SubSeq(s,
               IF k = 1 THEN 1 ELSE Nth(seps, k - 1) + 1,
               IF k > Cardinality(seps) THEN Len(s) ELSE Nth(seps, k) - 1)]

\* The positions where a line of s ends: a "\n", or a "\r" that no "\n" follows.
LineEnds(s) ==
    {i \in 1..Len(s) :
        \/ s[i] = "\n"
        \/ s[i] = "\r" /\ ~(i < Len(s) /\ s[i + 1] = "\n")}

\* A line cut at the "\n" of a "\r\n" loses the "\r" as well.
DropCr(s, pieces) ==
    [k \in 1..Len(pieces) |->
        IF /\ k < Len(pieces)
           /\ pieces[k] # <<>>
           /\ pieces[k][Len(pieces[k])] = "\r"
        THEN SubSeq(pieces[k], 1, Len(pieces[k]) - 1)
        ELSE pieces[k]]

\* A terminator at the very end opens no further line.
DropLastIfEmpty(pieces) ==
    IF pieces[Len(pieces)] = <<>> THEN SubSeq(pieces, 1, Len(pieces) - 1) ELSE pieces

\* str.splitlines(): lines end at "\n", "\r" or "\r\n"; the terminators are
\* dropped.
SplitLines(s) == DropLastIfEmpty(DropCr(s, Pieces(s, LineEnds(s))))

\* filter(None, parts): the parts that are not the empty string.
RECURSIVE FilterNonEmpty(_)
FilterNonEmpty(parts) ==
    IF parts = <<>> THEN <<>>
    ELSE IF parts[1] = <<>> THEN FilterNonEmpty(Tail(parts))
    ELSE <<parts[1]>> \o FilterNonEmpty(Tail(parts))

Max(a, b) == IF a >= b THEN a ELSE b

\* str(n) of an integer
Digit(d) ==
    CASE d = 0 -> "0" [] d = 1 -> "1" [] d = 2 -> "2" [] d = 3 -> "3"
      [] d = 4 -> "4" [] d = 5 -> "5" [] d = 6 -> "6" [] d = 7 -> "7"
      [] d = 8 -> "8" [] d = 9 -> "9"

RECURSIVE NatToStr(_)
NatToStr(n) ==
    IF n < 10 THEN <<Digit(n)>> ELSE NatToStr(n \div 10) \o <<Digit(n % 10)>>

IntToStr(n) == IF n < 0 THEN <<"-">> \o NatToStr(0 - n) ELSE NatToStr(n)

\* bytes.hex(): two lowercase hexadecimal digits per byte.
HexDigit(d) ==
    CASE d < 10 -> Digit(d)
      [] d = 10 -> "a" [] d = 11 -> "b" [] d = 12 -> "c"
      [] d = 13 -> "d" [] d = 14 -> "e" [] d = 15 -> "f"

RECURSIVE Hex(_)
Hex(bytes) ==
    IF bytes = <<>> THEN <<>>
    ELSE <<HexDigit(bytes[1] \div 16), HexDigit(bytes[1] % 16)>> \o Hex(Tail(bytes))

\* ------------------------------------------------------ result formatter
\* A cell value is a record [t, v]: t is "null", "int", "text" or "bytes".
NullValue == [t |-> "null", v |-> <<>>]
IntValue(n) == [t |-> "int", v |-> n]
TextValue(s) == [t |-> "text", v |-> s]
BytesValue(b) == [t |-> "bytes", v |-> b]

_format_cell(value) ==
    IF value.t = "null" THEN NullText
    ELSE IF value.t = "bytes" THEN Hex(value.v)
    ELSE IF value.t = "int" THEN IntToStr(value.v)
    ELSE value.v

\* data: every row mapped through _format_cell
FormatData(rows) ==
    [r \in 1..Len(rows) |-> [i \in 1..Len(rows[r]) |-> _format_cell(rows[r][i])]]

\* Widths that stay those of the headers.
WidenNever(widths, row) == widths

\* One pass of the inner loop: the widths widened by the cells of one row.
Widen(widths, row) ==
    [i \in 1..Len(widths) |->
        IF i <= Len(row) THEN Max(widths[i], Len(row[i])) ELSE widths[i]]

\* col_widths after the loop over the first n rows of data
RECURSIVE ColWidths(_, _, _)
ColWidths(columns, data, n) ==
    IF n = 0 THEN [i \in 1..Len(columns) |-> Len(columns[i])]
    ELSE Widen(ColWidths(columns, data, n - 1), data[n])

\* " | ".join(value.ljust(col_widths[idx]) for idx, value in enumerate(cells))
FormatLine(cells, widths) ==
    Join(ColumnSep, [i \in 1..Len(cells) |-> LJust(cells[i], widths[i])])

\* "-+-".join("-" * width for width in col_widths)
FormatSeparator(widths) ==
    Join(RuleSep, [i \in 1..Len(widths) |-> Dashes(widths[i])])

FormatBody(data, widths) ==
    Join(<<"\n">>, [r \in 1..Len(data) |-> FormatLine(data[r], widths)])

\* A join of the three parts that skips none.
FormatTableUnfiltered(columns, data, col_widths) ==
    Join(<<"\n">>,
         <<FormatLine(columns, col_widths),
           FormatSeparator(col_widths),
           FormatBody(data, col_widths)>>)

\* "\n".join(filter(None, [header, separator, body]))
FormatTable(columns, data, col_widths) ==
    Join(<<"\n">>,
         FilterNonEmpty(<<FormatLine(columns, col_widths),
                          FormatSeparator(col_widths),
                          FormatBody(data, col_widths)>>))

FormatWith(columns, data) ==
    FormatTable(columns, data, ColWidths(columns, data, Len(data)))

format_rows(columns, rows) == FormatWith(columns, FormatData(rows))

\* ---------------------------------------------------- statement splitter
\* A statement cut at its ";" without being trimmed first.
SplitEmitUntrimmed(buffer) == RStripChars(Join(<<"\n">>, buffer), {";"})

\* "\n".join(buffer).strip().rstrip(";")
SplitEmit(buffer) == RStripChars(Strip(Join(<<"\n">>, buffer)), {";"})

\* An append that keeps empty statements.
AppendAlways(statements, statement) == Append(statements, statement)

\* if statement: statements.append(statement)
AppendIfAny(statements, statement) ==
    IF statement # <<>> THEN Append(statements, statement) ELSE statements

\* The loop of _split_statements over the remaining lines, with the
\* statements collected and the pending buffer so far.
RECURSIVE SplitLoop(_, _, _)
SplitLoop(lines, statements, buffer) ==
    IF lines = <<>>
    THEN (IF buffer # <<>> THEN AppendIfAny(statements, SplitEmit(buffer))
          ELSE statements)
    ELSE IF EndsWith(RStripChars(lines[1], Whitespace), <<";">>)
    THEN SplitLoop(Tail(lines),
                   AppendIfAny(statements, SplitEmit(Append(buffer, lines[1]))),
                   <<>>)
    ELSE SplitLoop(Tail(lines), statements, Append(buffer, lines[1]))

_split_statements(sql) == SplitLoop(SplitLines(sql), <<>>, <<>>)

\* ------------------------------------------------------- DB-API backend
\* The database one connection sees: whether table t exists, and its rows.
EmptyDb == [hasTable |-> FALSE, rows |-> <<>>]
TableDb == [hasTable |-> TRUE, rows |-> <<>>]

\* The statement with surrounding blanks and the final ";" put aside, as the
\* engines' parsers read it.
SqlBody(sql) == Strip(RStripChars(Strip(sql), {";"}))

CreateBody == SqlBody(CreateSql)
InsertBody == SqlBody(InsertSql)
DeleteBody == SqlBody(DeleteSql)
SelectBody == SqlBody(SelectSql)

\* The engine raises: the exception's text is msg.
Failed(db, m) ==
    [ok |-> FALSE, msg |-> m, description |-> <<>>, rows |-> <<>>,
     rowcount |-> -1, db |-> db]

\* The engine ran the statement: description is <<>> for None, else one entry
\* per column; rows is what fetchall() will return; rowcount as sqlite3 and
\* psycopg2 report it.
Done(desc, rs, n, d) ==
    [ok |-> TRUE, msg |-> <<>>, description |-> desc, rows |-> rs,
     rowcount |-> n, db |-> d]

\* The first token of a statement: its characters up to the first blank.
FirstToken(s) ==
    IF \A i \in 1..Len(s) : s[i] \notin Whitespace THEN s
    ELSE SubSeq(s, 1, (CHOOSE i \in 1..Len(s) :
                          /\ s[i] \in Whitespace
                          /\ \A j \in 1..(i - 1) : s[j] \notin Whitespace) - 1)

\* sqlite3's message for a statement whose first token starts no statement
SyntaxErrorNear(token) ==
    <<"n", "e", "a", "r", " ", "\"">> \o token
        \o <<"\"", ":", " ", "s", "y", "n", "t", "a", "x", " ", "e", "r", "r", "o", "r">>

\* A statement of blanks and ";" only runs and reports nothing.
ExecuteBody(db, s) ==
    IF s = <<>> THEN Done(<<>>, <<>>, -1, db)
    ELSE IF s = CreateBody
    THEN IF db.hasTable THEN Failed(db, MsgExists)
         ELSE Done(<<>>, <<>>, -1, [db EXCEPT !.hasTable = TRUE])
    ELSE IF s \notin {InsertBody, DeleteBody, SelectBody}
    THEN Failed(db, SyntaxErrorNear(FirstToken(s)))
    ELSE IF ~db.hasTable THEN Failed(db, MsgNoTable)
    ELSE IF s = InsertBody
    THEN Done(<<>>, <<>>, 1, [db EXCEPT !.rows = Append(@, <<IntValue(1)>>)])
    ELSE IF s = DeleteBody
    THEN Done(<<>>, <<>>, Len(db.rows), [db EXCEPT !.rows = <<>>])
    ELSE Done(<<[name |-> <<"x">>]>>, db.rows, -1, db)

\* cursor.execute(sql)
CursorExecute(db, sql) == ExecuteBody(db, SqlBody(sql))

\* The statements an engine's own parser finds in a script: the text between
\* semicolons, blanks dropped.
StripAll(pieces) == [k \in 1..Len(pieces) |-> Strip(pieces[k])]
EngineSplit(text) ==
    FilterNonEmpty(StripAll(Pieces(text, {i \in 1..Len(text) : text[i] = ";"})))

\* Statements run one after the other on one cursor until one raises:
\* [ok, msg, db, ran], ran the number of statements handed to the engine.
RECURSIVE RunAll(_, _, _)
RunAll(db, statements, ran) ==
    IF statements = <<>> THEN [ok |-> TRUE, msg |-> <<>>, db |-> db, ran |-> ran]
    ELSE IF CursorExecute(db, statements[1]).ok
    THEN RunAll(CursorExecute(db, statements[1]).db, Tail(statements), ran + 1)
    ELSE [ok |-> FALSE, msg |-> CursorExecute(db, statements[1]).msg,
          db |-> db, ran |-> ran + 1]

\* sqlite3's cursor.executescript(sql)
CursorExecuteScript(db, text) == RunAll(db, EngineSplit(text), 0)

\* hasattr(cursor, "executescript"): sqlite3 cursors have it, psycopg2's do not.
HasExecuteScript(kind) == kind = "embedded"

\* path.read_text(encoding="utf-8"): [ok, text, msg]
ReadText(path) ==
    IF path = GoodPath THEN [ok |-> TRUE, text |-> GoodScript, msg |-> <<>>]
    ELSE IF path = BadPath THEN [ok |-> TRUE, text |-> BadScript, msg |-> <<>>]
    ELSE [ok |-> FALSE, text |-> <<>>, msg |-> MsgNoFile]

\* What the backend does in one operation of the client, chosen by the
\* environment: whether close, open, cursor(), fetchall() and commit() raise,
\* and what the opened database already holds.  A close() that raises may
\* have released the connection ("fail_closed") or not ("fail_open").  An
\* outcome that comes after a call that raised is never consulted, so it is
\* listed once only.
Envs ==
    {e \in [closeOutcome : {"ok", "fail_open", "fail_closed"},
            openOk : BOOLEAN, cursorOk : BOOLEAN, fetchOk : BOOLEAN,
            commitOk : BOOLEAN, initDb : {EmptyDb, TableDb}] :
        /\ (~e.openOk => e.cursorOk)
        /\ (~(e.openOk /\ e.cursorOk) => e.fetchOk /\ e.initDb = EmptyDb)
        /\ (~e.fetchOk => e.commitOk)}

\* The environments that differ in what an operation can observe: one that
\* closes nothing, opens nothing or runs nothing meets no outcome there.
EnvsFor(closes, opens, fresh, runs) ==
    {e \in Envs :
        /\ (~closes => e.closeOutcome = "ok")
        /\ (~opens => e.openOk /\ e.cursorOk)
        /\ (~opens \/ fresh => e.initDb = EmptyDb)
        /\ (~runs => e.fetchOk /\ e.commitOk)}

\* One call made on the backend: op names the call, conn the connection it was
\* made on (or that it returned), arg its text argument, ok whether it returned
\* rather than raised.  What a cursor reported is kept with the call: cols are
\* the column names of cursor.description (<<>> for None) and n is
\* cursor.rowcount after execute; rows is what fetchall returned.
Reported(op, conn, arg, ok, cols, n, rows) ==
    [op |-> op, conn |-> conn, arg |-> arg, ok |-> ok, cols |-> cols, n |-> n,
     rows |-> rows]

Call(op, conn, arg, ok) == Reported(op, conn, arg, ok, <<>>, 0, <<>>)

\* ------------------------------------------------------------------ state
VARIABLES
    target,           \* DatabaseClient.target
    connection,       \* DatabaseClient.connection: a connection id, or NoConn
    cursor,           \* DatabaseClient.cursor: the id of the connection it was made on, or NoConn
    conns,            \* every connection the backend opened for this client, by id:
                      \* its kind, whether it is live (opened and not closed), and
                      \* whether close() was ever called on it
    db,               \* the database the held connection sees
    driverInstalled,  \* whether "import psycopg2" succeeds in this process
    mode,             \* "direct": the client's methods are called; "gui": DatabaseGUI drives it;
                      \* "shell": interactive_shell drives it; "function": no client is driven
    proc,             \* "running", "exited" (window closed) or "aborted" (SystemExit escaped)
    lastOp,           \* the operation that ran last, and its argument
    lastArg,
    connectionBefore, \* self.connection and self.cursor when the last operation began
    cursorBefore,
    calls,            \* the backend calls the last operation made, in order
    log,              \* the severities of the log records the last operation emitted
    raised,           \* what the DatabaseClient method called last raised: "none", "Exception", "SystemExit"
    msg,              \* str(exc) of what it raised
    result,           \* the text the last operation returned or displayed
    buffer,           \* interactive_shell: the lines typed since the last execution
    prompt            \* interactive_shell: the prompt of the input() that is waiting

vars == <<target, connection, cursor, conns, db, driverInstalled, mode, proc,
          lastOp, lastArg, connectionBefore, cursorBefore, calls, log, raised,
          msg, result, buffer, prompt>>

\* The client and the backend as one value, so that the methods below can be
\* composed the way the source calls them.
Client ==
    [connection |-> connection, cursor |-> cursor, conns |-> conns, db |-> db,
     calls |-> <<>>, log |-> <<>>, raised |-> "none", msg |-> <<>>, result |-> <<>>]

Becomes(c) ==
    /\ connection' = c.connection
    /\ cursor' = c.cursor
    /\ conns' = c.conns
    /\ db' = c.db
    /\ calls' = c.calls
    /\ log' = c.log
    /\ raised' = c.raised
    /\ msg' = c.msg
    /\ result' = c.result

Called(c, call) == [c EXCEPT !.calls = Append(@, call)]
Logged(c, level) == [c EXCEPT !.log = Append(@, level)]
Raise(c, kind, m) == [c EXCEPT !.raised = kind, !.msg = m, !.result = <<>>]

\* ------------------------------------------------------ connect_database
MsgDriver ==
    <<"p", "s", "y", "c", "o", "p", "g", "2", " ", "i", "s", " ", "r", "e", "q", "u", "i", "r", "e", "d">>

\* A prefix test that knows only one of the two schemes.
IsRemoteOneScheme(db_path) == StartsWith(db_path, PostgresPrefix)

IsRemote(db_path) ==
    \/ StartsWith(db_path, PostgresPrefix)
    \/ StartsWith(db_path, PostgresqlPrefix)

BackendKind(db_path) == IF IsRemote(db_path) THEN "remote" ELSE "embedded"

\* connect_database(db_path): the exception it raises, or the backend's
\* connect call it makes (attempted) and whether that returned a connection.
connect_database(db_path, driver, env) ==
    IF IsRemote(db_path) /\ ~driver
    THEN [raised |-> "SystemExit", msg |-> MsgDriver, attempted |-> FALSE,
          kind |-> "remote"]
    ELSE [raised |-> IF env.openOk THEN "none" ELSE "Exception",
          msg |-> IF env.openOk THEN <<>> ELSE MsgOpen,
          attempted |-> TRUE, kind |-> BackendKind(db_path)]

\* --------------------------------------------------------- DatabaseClient
\* A close that lets the backend's exception out: the two assignments after
\* the with block are not reached.
CloseUnsuppressed(c, env) ==
    IF c.connection = NoConn THEN [c EXCEPT !.connection = NoConn, !.cursor = NoConn]
    ELSE IF env.closeOutcome = "ok"
    THEN [Called(c, Call("close", c.connection, <<>>, TRUE))
            EXCEPT !.conns[c.connection].live = FALSE,
                   !.conns[c.connection].closeCalled = TRUE,
                   !.connection = NoConn, !.cursor = NoConn, !.db = EmptyDb]
    ELSE Raise([Called(c, Call("close", c.connection, <<>>, FALSE))
                  EXCEPT !.conns[c.connection].live = (env.closeOutcome = "fail_open"),
                         !.conns[c.connection].closeCalled = TRUE],
               "Exception", <<>>)

\* A close that forgets to drop the cursor.
CloseKeepingCursor(c, env) ==
    IF c.connection # NoConn
    THEN [Called(c, Call("close", c.connection, <<>>, env.closeOutcome = "ok"))
            EXCEPT !.conns[c.connection].live = (env.closeOutcome = "fail_open"),
                   !.conns[c.connection].closeCalled = TRUE,
                   !.connection = NoConn, !.db = EmptyDb]
    ELSE [c EXCEPT !.connection = NoConn]

close(c, env) ==
    IF c.connection # NoConn
    THEN [Called(c, Call("close", c.connection, <<>>, env.closeOutcome = "ok"))
            EXCEPT !.conns[c.connection].live = (env.closeOutcome = "fail_open"),
                   !.conns[c.connection].closeCalled = TRUE,
                   !.connection = NoConn, !.cursor = NoConn, !.db = EmptyDb]
    ELSE [c EXCEPT !.connection = NoConn, !.cursor = NoConn]

\* self.connection = connect_database(self.target), the call having returned
Opened(c, tgt, kind, env) ==
    [Called(c, Call("open", Len(c.conns) + 1, tgt, TRUE))
       EXCEPT !.conns = Append(@, [kind |-> kind, live |-> TRUE, closeCalled |-> FALSE]),
              !.connection = Len(c.conns) + 1,
              !.db = IF tgt = MemoryTarget THEN EmptyDb ELSE env.initDb]

\* self.cursor = self.connection.cursor(); logger.info("Connected to ...")
MakeCursor(c, env) ==
    IF ~env.cursorOk
    THEN Raise(Called(c, Call("cursor", c.connection, <<>>, FALSE)), "Exception", MsgCursor)
    ELSE Logged([Called(c, Call("cursor", c.connection, <<>>, TRUE))
                   EXCEPT !.cursor = c.connection], "INFO")

\* connect() once self.close() has returned; o is what connect_database does
OpenNew(c, tgt, env, o) ==
    IF ~o.attempted THEN Raise(c, o.raised, o.msg)
    ELSE IF o.raised # "none"
    THEN Raise(Called(c, Call("open", NoConn, tgt, FALSE)), o.raised, o.msg)
    ELSE MakeCursor(Opened(c, tgt, o.kind, env), env)

\* A connect that opens the new connection without closing the held one.
ConnectKeepingOld(c, tgt, driver, env) ==
    OpenNew(c, tgt, env, connect_database(tgt, driver, env))

\* A connect that opens the new connection first and closes the held one
\* only once that has succeeded.
ConnectOpeningFirst(c, tgt, driver, env) ==
    IF connect_database(tgt, driver, env).raised # "none"
    THEN OpenNew(c, tgt, env, connect_database(tgt, driver, env))
    ELSE OpenNew(close(c, env), tgt, env, connect_database(tgt, driver, env))

connect(c, tgt, driver, env) ==
    OpenNew(close(c, env), tgt, env, connect_database(tgt, driver, env))

\* An ensure_cursor that connects whether or not a cursor is held.
EnsureAlwaysConnects(c, tgt, driver, env) == connect(c, tgt, driver, env)

ensure_cursor(c, tgt, driver, env) ==
    IF c.cursor = NoConn THEN connect(c, tgt, driver, env) ELSE c

commit(c, env) ==
    IF c.connection = NoConn THEN c
    ELSE IF env.commitOk THEN Called(c, Call("commit", c.connection, <<>>, TRUE))
    ELSE Raise(Called(c, Call("commit", c.connection, <<>>, FALSE)), "Exception", MsgCommit)

\* columns = [column[0] for column in cursor.description]
Columns(description) == [i \in 1..Len(description) |-> description[i].name]

\* An except clause that lets the backend's exception out.
RejectionRaised(c, r) == Raise(c, "Exception", r.msg)

\* except Exception as exc: logger.error(...); return f"Error: {exc}"
Rejection(c, r) == [Logged(c, "ERROR") EXCEPT !.result = ErrorPrefix \o r.msg]

\* A test of the rows the statement produced instead of its column metadata.
HasRows(r) == r.rows # <<>>

\* if cursor.description:
HasColumns(r) == r.description # <<>>

\* execute_statement after cursor.execute(sql) returned or raised r
Outcome(c, r, env) ==
    IF ~r.ok
    THEN Rejection(c, r)
    ELSE IF HasColumns(r)
    THEN IF ~env.fetchOk
         THEN Raise(Called(c, Call("fetchall", c.cursor, <<>>, FALSE)), "Exception", MsgFetch)
         ELSE [Logged(Called(c, Reported("fetchall", c.cursor, <<>>, TRUE, <<>>, 0, r.rows)),
                      "INFO")
                 EXCEPT !.result = format_rows(Columns(r.description), r.rows)]
    ELSE [Logged(c, "INFO")
            EXCEPT !.result = OkPrefix \o IntToStr(r.rowcount) \o OkSuffix]

Executed(c, sql, r, env) ==
    Outcome([Called(c, Reported("execute", c.cursor, sql, r.ok, Columns(r.description),
                                r.rowcount, <<>>))
               EXCEPT !.db = r.db], r, env)

\* execute_statement(cursor, sql), on the cursor the client holds
execute_statement(c, sql, env) == Executed(c, sql, CursorExecute(c.db, sql), env)

\* The status execute_script returns once its try block is left; r is how the
\* statements went.
ScriptStatus(c, path, r) ==
    IF ~r.ok
    THEN [Logged(c, "ERROR")
            EXCEPT !.result = ScriptErrorPrefix \o path \o ColonSpace \o r.msg]
    ELSE [Logged(c, "INFO") EXCEPT !.result = ScriptOkPrefix \o path]

\* cursor.executescript(sql)
NativeScript(c, path, text, r) ==
    ScriptStatus([Called(c, Call("executescript", c.cursor, text, r.ok))
                    EXCEPT !.db = r.db], path, r)

\* A loop that goes on to the remaining statements after one has failed.
LoopScriptPastFailure(c, path, statements, r) ==
    ScriptStatus([c EXCEPT !.calls = @ \o [i \in 1..Len(statements) |->
                                            Call("execute", c.cursor, statements[i],
                                                 r.ok \/ i # r.ran)],
                           !.db = r.db], path, r)

\* for statement in _split_statements(sql): cursor.execute(statement)
LoopScript(c, path, statements, r) ==
    ScriptStatus([c EXCEPT !.calls = @ \o [i \in 1..r.ran |->
                                            Call("execute", c.cursor, statements[i],
                                                 r.ok \/ i < r.ran)],
                           !.db = r.db], path, r)

SplitScript(c, path, statements) ==
    LoopScript(c, path, statements, RunAll(c.db, statements, 0))

\* execute_script after path.read_text() returned or raised f
ScriptText(c, path, f) ==
    IF ~f.ok THEN Raise(c, "Exception", f.msg)
    ELSE IF HasExecuteScript(c.conns[c.cursor].kind)
    THEN NativeScript(c, path, f.text, CursorExecuteScript(c.db, f.text))
    ELSE SplitScript(c, path, _split_statements(f.text))

\* execute_script(cursor, path), on the cursor the client holds
execute_script(c, path, env) == ScriptText(c, path, ReadText(path))

\* A commit made only when the execution step logged no error.
CommitOnSuccess(c, env) ==
    IF c.raised # "none" \/ (\E i \in 1..Len(c.log) : c.log[i] = "ERROR") THEN c
    ELSE commit(c, env)

\* self.commit() and return result, unless the step before raised
ThenCommit(c, env) == IF c.raised # "none" THEN c ELSE commit(c, env)

ThenStatement(c, sql, env) ==
    IF c.raised # "none" THEN c ELSE ThenCommit(execute_statement(c, sql, env), env)

ThenScript(c, path, env) ==
    IF c.raised # "none" THEN c ELSE ThenCommit(execute_script(c, path, env), env)

run_statement(c, tgt, driver, sql, env) ==
    ThenStatement(ensure_cursor(c, tgt, driver, env), sql, env)

run_script(c, tgt, driver, path, env) ==
    ThenScript(ensure_cursor(c, tgt, driver, env), path, env)

\* --------------------------------------------------------------- actions
\* The model stays within its bounds: the connections opened and the rows held.
WithinBounds(c) ==
    /\ Len(c.conns) <= MaxConns
    /\ Len(c.db.rows) <= MaxRows

Step(c) == WithinBounds(c) /\ Becomes(c)

Ran(op, arg) ==
    /\ lastOp' = op
    /\ lastArg' = arg
    /\ connectionBefore' = connection
    /\ cursorBefore' = cursor

\* The environments of run_statement and run_script: they close and open only
\* when no cursor is held.
RunEnvs ==
    EnvsFor(cursor = NoConn /\ connection # NoConn, cursor = NoConn,
            target = MemoryTarget, TRUE)

\* A client as its constructor leaves it.  The window is followed on an
\* installation without psycopg2; its handlers call the client methods that
\* the direct calls exercise with and without the driver.
Init ==
    /\ target \in Targets
    /\ connection = NoConn
    /\ cursor = NoConn
    /\ conns = <<>>
    /\ db = EmptyDb
    /\ mode \in {"direct", "gui"}
    /\ driverInstalled \in (IF mode = "gui" THEN {FALSE} ELSE BOOLEAN)
    /\ proc = "running"
    /\ lastOp = "init"
    /\ lastArg = <<>>
    /\ connectionBefore = NoConn
    /\ cursorBefore = NoConn
    /\ calls = <<>>
    /\ log = <<>>
    /\ raised = "none"
    /\ msg = <<>>
    /\ result = <<>>
    /\ buffer = <<>>
    /\ prompt = <<>>

\* client.connect(), also DatabaseClient.__enter__
Connect ==
    /\ proc = "running" /\ mode = "direct"
    /\ \E env \in EnvsFor(connection # NoConn, TRUE, target = MemoryTarget, FALSE) :
          Step(connect(Client, target, driverInstalled, env))
    /\ Ran("connect", target)
    /\ UNCHANGED <<target, driverInstalled, mode, proc, buffer, prompt>>

\* client.close(), also DatabaseClient.__exit__
Close ==
    /\ proc = "running" /\ mode = "direct"
    /\ \E env \in EnvsFor(connection # NoConn, FALSE, TRUE, FALSE) :
          Becomes(close(Client, env))
    /\ Ran("close", <<>>)
    /\ UNCHANGED <<target, driverInstalled, mode, proc, buffer, prompt>>

\* client.run_statement(sql)
RunStatement ==
    /\ proc = "running" /\ mode = "direct"
    /\ \E sql \in Statements, env \in RunEnvs :
          /\ Step(run_statement(Client, target, driverInstalled, sql, env))
          /\ Ran("run_statement", sql)
    /\ UNCHANGED <<target, driverInstalled, mode, proc, buffer, prompt>>

\* client.run_script(path)
RunScript ==
    /\ proc = "running" /\ mode = "direct"
    /\ \E path \in Paths, env \in RunEnvs :
          /\ Step(run_script(Client, target, driverInstalled, path, env))
          /\ Ran("run_script", path)
    /\ UNCHANGED <<target, driverInstalled, mode, proc, buffer, prompt>>

\* ------------------------------------------------------------ DatabaseGUI
\* What the user may have typed into the database path entry.
BlankEntry == <<" ", " ">>
PaddedEntry == <<" ">> \o FileTarget \o <<" ">>
GuiEntries == {BlankEntry, PaddedEntry, PostgresTarget}

\* An exception that "except Exception" does not catch leaves the handler and
\* ends the process.
AfterHandler(c) == IF c.raised = "SystemExit" THEN "aborted" ELSE "running"

\* A handler returns: the client as the method left it, with what the handler
\* itself logged and displayed.
Handled(c, shown) ==
    /\ WithinBounds(c)
    /\ Becomes(shown)
    /\ proc' = AfterHandler(c)

\* path = self.db_path_var.get().strip() or ":memory:"
EntryPath(entry) == IF Strip(entry) = <<>> THEN MemoryTarget ELSE Strip(entry)

\* _connect_to_database after self.client.connect() returned or raised
ConnectShown(c) ==
    IF c.raised = "none" THEN Logged(c, "INFO")
    ELSE IF c.raised = "Exception" THEN Logged(c, "ERROR")
    ELSE c

\* except Exception as exc: result = f"Error: {exc}"; self.logger.error(result)
Caught(c) ==
    IF c.raised = "Exception"
    THEN [Logged(c, "ERROR") EXCEPT !.result = ErrorPrefix \o c.msg]
    ELSE c

\* _execute_statement after run_statement: self.logger.info("Executed statement")
ExecuteShown(c) == IF c.raised = "SystemExit" THEN c ELSE Logged(Caught(c), "INFO")

GuiConnected(c) == Handled(c, ConnectShown(c))
GuiExecuted(c) == Handled(c, ExecuteShown(c))
GuiScripted(c) == Handled(c, Caught(c))

\* DatabaseGUI._connect_to_database, run by the constructor and by the
\* Connect button
GuiConnect ==
    /\ proc = "running" /\ mode = "gui"
    /\ \E entry \in GuiEntries,
          env \in EnvsFor(connection # NoConn, TRUE, FALSE, FALSE) :
          /\ target' = EntryPath(entry)
          /\ GuiConnected(connect(Client, EntryPath(entry), driverInstalled, env))
          /\ Ran("gui_connect", entry)
    /\ UNCHANGED <<driverInstalled, mode, buffer, prompt>>

\* DatabaseGUI._execute_statement, the Execute button; with nothing typed it
\* shows a notice and returns
GuiExecute ==
    /\ proc = "running" /\ mode = "gui" /\ lastOp # "init"
    /\ \E entry \in Statements \cup {BlankEntry}, env \in RunEnvs :
          /\ IF Strip(entry) = <<>>
             THEN Becomes(Client) /\ proc' = proc
             ELSE GuiExecuted(run_statement(Client, target, driverInstalled,
                                            Strip(entry), env))
          /\ Ran("gui_execute", entry)
    /\ UNCHANGED <<target, driverInstalled, mode, buffer, prompt>>

\* DatabaseGUI._run_script, the Run Script button; the file dialog returns ""
\* when it is cancelled
GuiRunScript ==
    /\ proc = "running" /\ mode = "gui" /\ lastOp # "init"
    /\ \E filename \in Paths \cup {<<>>}, env \in RunEnvs :
          /\ IF filename = <<>>
             THEN Becomes(Client) /\ proc' = proc
             ELSE GuiScripted(run_script(Client, target, driverInstalled, filename, env))
          /\ Ran("gui_run_script", filename)
    /\ UNCHANGED <<target, driverInstalled, mode, buffer, prompt>>

\* DatabaseGUI._on_close, the window's close button
GuiClose ==
    /\ proc = "running" /\ mode = "gui" /\ lastOp # "init"
    /\ \E env \in EnvsFor(connection # NoConn, FALSE, TRUE, FALSE) :
          Becomes(close(Client, env))
    /\ proc' = "exited"
    /\ Ran("gui_close", <<>>)
    /\ UNCHANGED <<target, driverInstalled, mode, buffer, prompt>>

Next ==
    \/ Connect
    \/ Close
    \/ RunStatement
    \/ RunScript
    \/ GuiConnect
    \/ GuiExecute
    \/ GuiRunScript
    \/ GuiClose

Spec == Init /\ [][Next]_vars

TypeOK ==
    /\ target \in Targets
    /\ connection \in 0..MaxConns
    /\ cursor \in 0..MaxConns
    /\ Len(conns) <= MaxConns
    /\ raised \in {"none", "Exception", "SystemExit"}
    /\ proc \in {"running", "exited", "aborted"}

\* ================================================================ claims
\* The positions in a sequence of backend calls of the calls named op.
CallsOf(cs, op) == {i \in 1..Len(cs) : cs[i].op = op}

\* ------------------------------------------------------------------- C1
\* C1 as stated: at every moment at most one connection opened by the client
\* is live, that is opened and not closed.
C1_AtMostOneLive ==
    Cardinality({i \in 1..Len(conns) : conns[i].live}) <= 1

\* C1 as the code keeps it: a connection the client opened and has not yet
\* passed to close() is the one it holds, so there is at most one; every
\* operation opens at most one connection, and when the client held a
\* connection the backend's close was called on it before the open call was
\* made.  (A close that raised is suppressed, and may leave that connection
\* live.)
C1_CloseBeforeOpen ==
    /\ \A i \in 1..Len(conns) :
          conns[i].live /\ ~conns[i].closeCalled => i = connection
    /\ Cardinality(CallsOf(calls, "open")) <= 1
    /\ \A j \in CallsOf(calls, "open") :
          connectionBefore # NoConn =>
              \E k \in 1..(j - 1) :
                  /\ calls[k].op = "close"
                  /\ calls[k].conn = connectionBefore
                  /\ conns[connectionBefore].closeCalled

\* A reconnect: the held connection was closed, then the new one opened.
C1_Reconnected ==
    /\ lastOp \in {"connect", "gui_connect"}
    /\ Len(calls) >= 2
    /\ calls[1].op = "close"
    /\ calls[2].op = "open" /\ calls[2].ok
    /\ connectionBefore = 1
    /\ connection = 2
    /\ conns[1].closeCalled

\* ------------------------------------------------------------------- C2
\* C2: close never raises and is idempotent.  After close (and after the
\* window's close handler) nothing was raised and the client holds no
\* connection and no cursor; when the client held no connection, as after an
\* earlier close or before any connect, no backend call was made; when it held
\* one, the backend's close was called on it once, and that call raising
\* changes none of this.
C2_CloseNeverRaises ==
    lastOp \in {"close", "gui_close"} =>
        /\ raised = "none"
        /\ proc # "aborted"
        /\ connection = NoConn
        /\ cursor = NoConn
        /\ (connectionBefore = NoConn => calls = <<>>)
        /\ (connectionBefore # NoConn =>
              /\ Len(calls) = 1
              /\ calls[1].op = "close"
              /\ calls[1].conn = connectionBefore)

\* A close during which the backend's close raised.
C2_BackendCloseFailed ==
    /\ lastOp = "close"
    /\ Len(calls) = 1
    /\ ~calls[1].ok
    /\ raised = "none"
    /\ connection = NoConn

\* ------------------------------------------------------------------- C3
\* The last operation was a run_statement whose SQL the backend rejected.
Rejected ==
    /\ lastOp \in {"run_statement", "gui_execute"}
    /\ \E i \in CallsOf(calls, "execute") : ~calls[i].ok

\* The message sqlite3 and psycopg2 give for a rejected statement of the
\* model's inputs.
RejectionMessage(sql) ==
    IF sql = InvalidSql THEN MsgSyntax
    ELSE IF sql = CreateSql THEN MsgExists
    ELSE MsgNoTable

\* C3 as stated: when the backend rejects the SQL, run_statement does not
\* raise and returns "Error: " followed by the backend's message.
C3_RejectionNeverRaises ==
    Rejected =>
        /\ raised = "none"
        /\ result = ErrorPrefix \o RejectionMessage(lastArg)

\* What holds after a rejected statement: the rejected execute is the last
\* call but one and the commit on the same connection is the last; the method
\* raised exactly when that commit raised, and otherwise returned "Error: "
\* followed by the backend's message; the client holds the connection and
\* cursor the statement ran on, still open, and they are the ones it held
\* before if it held a cursor.
AfterRejection ==
    Rejected =>
        /\ Len(calls) >= 2
        /\ calls[Len(calls) - 1].op = "execute"
        /\ ~calls[Len(calls) - 1].ok
        /\ calls[Len(calls) - 1].arg = lastArg
        /\ calls[Len(calls)].op = "commit"
        /\ calls[Len(calls)].conn = calls[Len(calls) - 1].conn
        /\ (raised = "none") = calls[Len(calls)].ok
        /\ raised \in {"none", "Exception"}
        /\ (raised = "none" => result = ErrorPrefix \o RejectionMessage(lastArg))
        /\ connection = calls[Len(calls) - 1].conn
        /\ cursor = connection
        /\ conns[connection].live
        /\ (cursorBefore # NoConn =>
              connection = connectionBefore /\ cursor = cursorBefore)

\* A run_statement or run_script that follows a rejected statement makes its
\* calls on the cursor and connection the rejected statement left, and neither
\* closes nor opens a connection.
ReusedAfterRejection ==
    Rejected /\ lastOp' \in {"run_statement", "run_script", "gui_execute", "gui_run_script"} =>
        /\ connection' = connection
        /\ cursor' = cursor
        /\ conns' = conns
        /\ \A i \in 1..Len(calls') :
              /\ calls'[i].op \in {"execute", "executescript", "fetchall", "commit"}
              /\ calls'[i].conn = cursor

\* C3 as the code keeps it: a rejected statement does not itself make
\* run_statement raise; unless the commit that follows raises, run_statement
\* returns "Error: " followed by the backend's message; either way the client
\* keeps the same open connection and cursor, and the next statement runs on
\* them without reconnecting.
C3_RejectionHandled == [][AfterRejection' /\ ReusedAfterRejection]_vars

\* A syntactically invalid statement on a held cursor, answered with "Error: "
\* and the backend's message.
C3_InvalidStatementAnswered ==
    /\ Rejected
    /\ lastArg = InvalidSql
    /\ cursorBefore # NoConn
    /\ raised = "none"
    /\ result = ErrorPrefix \o MsgSyntax
    /\ cursor = cursorBefore

\* ------------------------------------------------------------------- C4
\* The last operation called run_statement.  The Execute button calls it
\* unless nothing was typed.
StatementCalled ==
    \/ lastOp = "run_statement"
    \/ lastOp = "gui_execute" /\ Strip(lastArg) # <<>>

\* The last operation called run_script.  The Run Script button calls it
\* unless the file dialog was cancelled.
ScriptCalled ==
    \/ lastOp = "run_script"
    \/ lastOp = "gui_run_script" /\ lastArg # <<>>

\* The calls with which a statement or a script is executed.
Executions(cs) == CallsOf(cs, "execute") \cup CallsOf(cs, "executescript")

\* C4: a run_statement or run_script call that returned made exactly one
\* commit call, on the connection the client holds, as its last backend call,
\* after its execution step; this is so when the execution succeeded and when
\* it ended in an error that execute_statement or execute_script handled.
C4_CommitsOnceBeforeReturn ==
    (StatementCalled \/ ScriptCalled) /\ raised = "none" =>
        /\ Cardinality(CallsOf(calls, "commit")) = 1
        /\ calls[Len(calls)].op = "commit"
        /\ calls[Len(calls)].ok
        /\ calls[Len(calls)].conn = connection
        /\ connection # NoConn
        /\ Executions(calls) # {}
        /\ \A i \in Executions(calls) \cup CallsOf(calls, "fetchall") : i < Len(calls)

\* A run_script that ended in a handled failure and committed before it
\* returned the error status.
C4_CommittedAfterHandledFailure ==
    /\ lastOp = "run_script"
    /\ raised = "none"
    /\ StartsWith(result, ScriptErrorPrefix)
    /\ \E i \in Executions(calls) : ~calls[i].ok
    /\ calls[Len(calls)].op = "commit"

\* ------------------------------------------------------------------- C5
\* C5: run_statement and run_script execute SQL only on a cursor of a live
\* connection the client holds.  When the client held no cursor, every
\* execution comes after a successful open of the client's target and a
\* successful cursor() on the connection opened, and runs on that
\* connection; when the client held a cursor, no connection is closed or
\* opened, no cursor is made, and every call is made on the cursor held before,
\* which the client still holds afterwards.
C5_ExecutesOnLiveCursor ==
    StatementCalled \/ ScriptCalled =>
        /\ \A i \in Executions(calls) :
              /\ calls[i].conn # NoConn
              /\ calls[i].conn = cursor
              /\ calls[i].conn = connection
              /\ conns[calls[i].conn].live
        /\ (cursorBefore = NoConn =>
              \A i \in Executions(calls) :
                  \E j \in 1..(i - 2) :
                      /\ calls[j].op = "open" /\ calls[j].ok
                      /\ calls[j].arg = target
                      /\ calls[j].conn = calls[i].conn
                      /\ calls[j + 1].op = "cursor" /\ calls[j + 1].ok
                      /\ calls[j + 1].conn = calls[i].conn)
        /\ (cursorBefore # NoConn =>
              /\ \A i \in 1..Len(calls) :
                    /\ calls[i].op \notin {"open", "close", "cursor"}
                    /\ calls[i].conn = cursorBefore
              /\ cursor = cursorBefore
              /\ connection = connectionBefore)

\* A statement run by a client that held no cursor: it connected first.
C5_ConnectedOnFirstUse ==
    /\ lastOp = "run_statement"
    /\ cursorBefore = NoConn
    /\ Len(calls) >= 3
    /\ calls[1].op = "open" /\ calls[1].arg = target
    /\ calls[3].op = "execute"

\* ------------------------------------------------------------------- C6
\* The last operation was a run_script that executed the script statement by
\* statement (the cursor has no executescript) and one statement failed.
SplitScriptFailed ==
    /\ ScriptCalled
    /\ \E i \in CallsOf(calls, "execute") : ~calls[i].ok

\* The statements of the script the last run_script was given.
ScriptStatements == _split_statements(ReadText(lastArg).text)

FirstExecute == CHOOSE i \in CallsOf(calls, "execute") :
                    \A j \in CallsOf(calls, "execute") : i <= j

ExecuteCount == Cardinality(CallsOf(calls, "execute"))

\* The texts execute_script reports for a failed statement of the model's
\* scripts.
ScriptFailureTexts ==
    {ScriptErrorPrefix \o lastArg \o ColonSpace \o m :
        m \in {MsgSyntax, MsgNoTable, MsgExists}}

\* After a split script failed at statement k: the execute calls are the
\* statements 1..k of the split script, in script order, one after the other
\* on one cursor of a backend without executescript; all but the last
\* succeeded, and no statement after k was executed; the next call is the
\* commit, and unless that commit raised the outcome is the script error
\* status; the client holds the connection the script ran on, still open.
AfterSplitScriptFailure ==
    SplitScriptFailed =>
        /\ ExecuteCount <= Len(ScriptStatements)
        /\ CallsOf(calls, "execute") = FirstExecute..(FirstExecute + ExecuteCount - 1)
        /\ CallsOf(calls, "executescript") = {}
        /\ \A k \in 1..ExecuteCount :
              /\ calls[FirstExecute + k - 1].arg = ScriptStatements[k]
              /\ calls[FirstExecute + k - 1].conn = cursor
              /\ calls[FirstExecute + k - 1].ok = (k < ExecuteCount)
        /\ ~HasExecuteScript(conns[cursor].kind)
        /\ Len(calls) = FirstExecute + ExecuteCount
        /\ calls[Len(calls)].op = "commit"
        /\ calls[Len(calls)].conn = cursor
        /\ (raised = "none") = calls[Len(calls)].ok
        /\ (raised = "none" => result \in ScriptFailureTexts)
        /\ connection = cursor
        /\ conns[connection].live
        /\ (cursorBefore # NoConn => cursor = cursorBefore)

\* The run_statement or run_script after it makes its calls on that cursor
\* and connection, and neither closes nor opens a connection.
ReusedAfterSplitScriptFailure ==
    SplitScriptFailed /\ (StatementCalled \/ ScriptCalled)' =>
        /\ connection' = connection
        /\ cursor' = cursor
        /\ conns' = conns
        /\ \A i \in 1..Len(calls') :
              /\ calls'[i].op \in {"execute", "fetchall", "commit"}
              /\ calls'[i].conn = cursor

\* C6: when run_script runs on a backend without a native multi-statement
\* primitive and statement k of the split script fails, statements 1..k-1
\* were executed in script order on the same cursor, no statement after k is
\* executed, the outcome is the script error status, and the client's
\* connection stays open and is used by the next run_statement or run_script.
C6_SplitScriptStopsAtFailure ==
    /\ []AfterSplitScriptFailure
    /\ [][ReusedAfterSplitScriptFailure]_vars

\* The second of three statements failed: the first ran, the third did not.
C6_StoppedAtSecondStatement ==
    /\ lastOp = "run_script"
    /\ lastArg = BadPath
    /\ SplitScriptFailed
    /\ ExecuteCount = 2
    /\ Len(ScriptStatements) = 3
    /\ calls[FirstExecute].ok
    /\ calls[FirstExecute + 1].arg = <<"S", "E", "L", "E", "C">>
    /\ raised = "none"
    /\ result = ScriptErrorPrefix \o BadPath \o ColonSpace \o MsgSyntax

\* ------------------------------------------------------------------- C7
\* C7: every run_script call that got its cursor, and whose commit did not
\* raise, returns one of the two status strings and does not raise: "Error
\* executing script {path}: {message}" on a failure, a failure to read the
\* file included, "Executed script: {path}" otherwise.
C7_ScriptAlwaysReturnsStatus ==
    /\ ScriptCalled
    /\ cursor # NoConn
    /\ \A i \in CallsOf(calls, "commit") : calls[i].ok
    => /\ raised = "none"
       /\ \/ result = ScriptOkPrefix \o lastArg
          \/ /\ StartsWith(result, ScriptErrorPrefix \o lastArg \o ColonSpace)
             /\ \E i \in 1..Len(log) : log[i] = "ERROR"

\* ------------------------------------------------------------------- C8
\* The last operation was a run_statement whose statement the backend
\* executed.
StatementExecuted ==
    /\ StatementCalled
    /\ \E i \in CallsOf(calls, "execute") : calls[i].ok

\* The position of the execute call of the last run_statement.
TheExecute == CHOOSE i \in 1..Len(calls) : calls[i].op = "execute"

OneRowAffected ==
    <<"O", "K", " ", "(", "1", " ", "r", "o", "w", "s", " ", "a", "f", "f", "e", "c", "t", "e", "d", ")">>

NoRowAffected ==
    <<"O", "K", " ", "(", "0", " ", "r", "o", "w", "s", " ", "a", "f", "f", "e", "c", "t", "e", "d", ")">>

OneRowTable ==
    <<"x", "\n", "-", "\n", "1">>

\* C8: after a statement that executed, what run_statement does depends only
\* on whether the cursor reports columns.  If it does, fetchall is called
\* next and the outcome is format_rows of the column names and the rows
\* fetched; if it does not, nothing is fetched and the outcome is exactly
\* "OK (N rows affected)" with N the cursor's rowcount, N = 0 included.  An
\* INSERT of one row answers "OK (1 rows affected)" and a SELECT of a table of
\* one row answers a header line, a separator line and one body line.
C8_OutcomeByColumnMetadata ==
    StatementExecuted =>
        /\ Cardinality(CallsOf(calls, "execute")) = 1
        /\ Len(calls) > TheExecute
        /\ (calls[TheExecute].cols # <<>> =>
              /\ calls[TheExecute + 1].op = "fetchall"
              /\ (raised = "none" =>
                    /\ calls[TheExecute + 1].ok
                    /\ result = format_rows(calls[TheExecute].cols,
                                            calls[TheExecute + 1].rows)))
        /\ (calls[TheExecute].cols = <<>> =>
              /\ CallsOf(calls, "fetchall") = {}
              /\ calls[TheExecute + 1].op = "commit"
              /\ (raised = "none" =>
                    result = OkPrefix \o IntToStr(calls[TheExecute].n) \o OkSuffix))
        /\ (raised = "none" /\ lastArg = InsertSql => result = OneRowAffected)
        /\ (raised = "none" /\ lastArg = DeleteSql /\ calls[TheExecute].n = 0 =>
              result = NoRowAffected)
        /\ (raised = "none" /\ lastArg = SelectSql
              /\ Len(calls[TheExecute + 1].rows) = 1 =>
              /\ result = OneRowTable
              /\ Len(SplitLines(result)) = 3)

\* On an in-memory database, the SELECT that follows CREATE TABLE and the
\* INSERT of one row.
C8_SelectedTheInsertedRow ==
    /\ lastOp = "run_statement"
    /\ lastArg = SelectSql
    /\ target = MemoryTarget
    /\ StatementExecuted
    /\ Len(db.rows) = 1
    /\ raised = "none"
    /\ result = OneRowTable

\* ------------------------------------------------------------------- C9
\* The last operation called connect: the client's connect, the window's
\* connect handler, or a run_statement or run_script of a client that held no
\* cursor.
ConnectCalled ==
    \/ lastOp \in {"connect", "gui_connect"}
    \/ (StatementCalled \/ ScriptCalled) /\ cursorBefore = NoConn

\* C9: connecting to a remote target without the driver makes no attempt to
\* open a connection, and fails with an error that the callers of connect
\* handle as they handle any connection failure: the process goes on.
C9_MissingDriverIsHandled ==
    ConnectCalled /\ IsRemote(target) /\ ~driverInstalled =>
        /\ CallsOf(calls, "open") = {}
        /\ raised = "Exception"
        /\ proc = "running"

\* ------------------------------------------------------------------ C10
RemoteScheme(t) ==
    \/ Len(t) >= 11 /\ SubSeq(t, 1, 11) = <<"p", "o", "s", "t", "g", "r", "e", "s", ":", "/", "/">>
    \/ Len(t) >= 13 /\ SubSeq(t, 1, 13) = <<"p", "o", "s", "t", "g", "r", "e", "s", "q", "l", ":", "/", "/">>

\* C10: the backend is a function of the target alone.  Every open call is
\* given the client's target verbatim; the connection it returns is a remote
\* one if and only if the target starts with "postgres://" or
\* "postgresql://", and an embedded one for every other target, ":memory:"
\* and file paths included; a remote target without the driver takes the
\* remote route and stops there; the connections a client opens for one
\* target are all of one kind.
C10_BackendByPrefix ==
    /\ \A j \in CallsOf(calls, "open") :
          /\ calls[j].arg = target
          /\ (calls[j].ok =>
                conns[calls[j].conn].kind =
                    (IF RemoteScheme(target) THEN "remote" ELSE "embedded"))
          /\ (calls[j].ok /\ target \in {MemoryTarget, FileTarget, NearMissTarget} =>
                conns[calls[j].conn].kind = "embedded")
          /\ (calls[j].ok /\ target \in {PostgresTarget, PostgresqlTarget} =>
                conns[calls[j].conn].kind = "remote")
    /\ (ConnectCalled /\ RemoteScheme(target) /\ ~driverInstalled =>
          CallsOf(calls, "open") = {} /\ raised = "SystemExit")
    /\ (mode = "direct" =>
          \A i, j \in 1..Len(conns) : conns[i].kind = conns[j].kind)

\* A target with the longer scheme, opened on the remote backend.
C10_PostgresqlRoutedRemote ==
    /\ lastOp = "connect"
    /\ target = PostgresqlTarget
    /\ connection # NoConn
    /\ \E j \in CallsOf(calls, "open") :
          /\ calls[j].ok
          /\ calls[j].arg = PostgresqlTarget
          /\ calls[j].conn = connection
    /\ conns[connection].kind = "remote"

\* ------------------------------------------------------------------ C16
\* C16, for the failure that close suppresses: when the backend's close
\* raises during close, an error-severity record is logged before close
\* returns.
C16_FailedCloseIsLogged ==
    /\ lastOp \in {"close", "gui_close"}
    /\ \E i \in CallsOf(calls, "close") : ~calls[i].ok
    => \E i \in 1..Len(log) : log[i] = "ERROR"

\* ------------------------------------------------------------------ C17
\* C17: a client that holds a cursor holds a connection, the cursor was made
\* on that connection, and the connection is open: live and never passed to
\* close.  Whatever the last operation executed, it executed on the cursor
\* the client holds, whose connection has not been closed; connections
\* closed earlier, by close or by a reconnect, take no statement.
C17_CursorOfOpenConnection ==
    /\ (cursor # NoConn =>
          /\ connection # NoConn
          /\ cursor = connection
          /\ conns[connection].live
          /\ ~conns[connection].closeCalled)
    /\ \A i \in Executions(calls) \cup CallsOf(calls, "fetchall") :
          /\ calls[i].conn # NoConn
          /\ calls[i].conn = cursor
          /\ ~conns[calls[i].conn].closeCalled
          /\ \A j \in CallsOf(calls, "close") : j < i /\ calls[j].conn # calls[i].conn

\* A statement run after a reconnect: on the second connection, the first
\* one closed.
C17_RanAfterReconnect ==
    /\ lastOp = "run_statement"
    /\ Len(conns) = 2
    /\ conns[1].closeCalled
    /\ cursorBefore = 2
    /\ \E i \in CallsOf(calls, "execute") : calls[i].conn = 2

\* ------------------------------------------------------------------ C19
\* The last operation called connect and got no cursor.
ConnectFailed ==
    /\ ConnectCalled
    /\ \A i \in CallsOf(calls, "cursor") : ~calls[i].ok

\* After a connect that failed: it raised; the connection held before was
\* passed to close first and is not held any more; the client holds no
\* cursor, and nothing was executed.
AfterFailedConnect ==
    ConnectFailed =>
        /\ raised # "none"
        /\ cursor = NoConn
        /\ Executions(calls) = {}
        /\ (connectionBefore # NoConn =>
              /\ calls # <<>>
              /\ calls[1].op = "close"
              /\ calls[1].conn = connectionBefore
              /\ conns[connectionBefore].closeCalled
              /\ connection # connectionBefore)

\* The run_statement or run_script after it connects again: it closes the
\* connection left without a cursor, if there is one, then either stops at
\* the missing driver or opens the client's target; what it executes, it
\* executes on the connection it has just opened.
FreshConnectAfterFailure ==
    ConnectFailed /\ (StatementCalled \/ ScriptCalled)' =>
        /\ (connection # NoConn =>
              /\ calls'[1].op = "close"
              /\ calls'[1].conn = connection)
        /\ IF IsRemote(target') /\ ~driverInstalled
           THEN raised' = "SystemExit" /\ CallsOf(calls', "open") = {}
           ELSE \E j \in CallsOf(calls', "open") : calls'[j].arg = target'
        /\ \A i \in Executions(calls') :
              /\ calls'[i].conn > Len(conns)
              /\ calls'[i].conn = cursor'

\* C19: a connect that fails has already closed the connection the client
\* held, leaves the client without a cursor, and the next run_statement or
\* run_script connects afresh to the client's current target and never
\* executes on the old connection.
C19_FailedConnectDropsOldConnection ==
    /\ []AfterFailedConnect
    /\ [][FreshConnectAfterFailure]_vars

\* A reconnect that failed to open the new connection after closing the old.
C19_ReconnectFailed ==
    /\ lastOp \in {"connect", "gui_connect"}
    /\ connectionBefore # NoConn
    /\ ConnectFailed
    /\ connection = NoConn
    /\ Len(calls) = 2
    /\ calls[2].op = "open" /\ ~calls[2].ok

\* ==================================================== the pure functions
\* The splitter and the formatter are checked as functions: the client is at
\* rest, lastArg is the argument of the one call made and result what it
\* returned.
ClientAtRest ==
    /\ target = MemoryTarget
    /\ connection = NoConn
    /\ cursor = NoConn
    /\ conns = <<>>
    /\ db = EmptyDb
    /\ driverInstalled = FALSE
    /\ mode = "function"
    /\ proc = "running"
    /\ connectionBefore = NoConn
    /\ cursorBefore = NoConn
    /\ calls = <<>>
    /\ log = <<>>
    /\ raised = "none"
    /\ msg = <<>>

FunctionInit ==
    /\ ClientAtRest
    /\ lastOp = "init"
    /\ lastArg = <<>>
    /\ result = <<>>
    /\ buffer = <<>>
    /\ prompt = <<>>

\* No call has been made yet.
NotYetCalled == lastOp = "init"

\* The function named op is called, with arg, and returns value.
Applied(op, arg, value) ==
    /\ lastOp' = op
    /\ lastArg' = arg
    /\ result' = value
    /\ UNCHANGED <<target, connection, cursor, conns, db, driverInstalled, mode,
                   proc, connectionBefore, cursorBefore, calls, log, raised, msg,
                   buffer, prompt>>

\* All texts of at most n characters of the set chars.
TextsUpTo(chars, n) == UNION {[1..k -> chars] : k \in 0..n}

\* ------------------------------------------------------ _split_statements
\* Script texts: every text of up to MaxSqlLen characters of SqlChars, and the
\* two scripts of two SELECTs.
MaxSqlLen == 4
SqlChars == {"a", ";", " ", "\n", "\r"}

TwoSelects ==
    <<"S", "E", "L", "E", "C", "T", " ", "1", ";", "\n", "S", "E", "L", "E", "C", "T", " ", "2", ";">>
TwoSelectsOpenEnded ==
    <<"S", "E", "L", "E", "C", "T", " ", "1", ";", "\n", "S", "E", "L", "E", "C", "T", " ", "2">>
SelectOne ==
    <<"S", "E", "L", "E", "C", "T", " ", "1">>
SelectTwo ==
    <<"S", "E", "L", "E", "C", "T", " ", "2">>

SqlTexts == TextsUpTo(SqlChars, MaxSqlLen) \cup {TwoSelects, TwoSelectsOpenEnded}

SplitStatements ==
    /\ NotYetCalled
    /\ \E sql \in SqlTexts :    Applied("_split_statements", sql, _split_statements(sql))

SplitSpec == FunctionInit /\ [][SplitStatements]_vars

\* ------------------------------------------------------------------ C11
\* The lines of the text that was split.
GivenLines == SplitLines(lastArg)

\* A line whose last character that is no whitespace is ";".
EndsStatement(line) ==
    \E j \in 1..Len(line) :
        /\ line[j] = ";"
        /\ \A k \in (j + 1)..Len(line) : line[k] \in Whitespace

Terminators == {i \in 1..Len(GivenLines) : EndsStatement(GivenLines[i])}

LastTerminator == IF Terminators = {} THEN 0 ELSE Nth(Terminators, Cardinality(Terminators))

\* The maximal runs of lines: one up to each terminating line, and the lines
\* after the last of them, if any.
RunCount ==
    Cardinality(Terminators) + (IF LastTerminator < Len(GivenLines) THEN 1 ELSE 0)

RunLines(k) ==
    SubSeq(GivenLines,
           IF k = 1 THEN 1 ELSE Nth(Terminators, k - 1) + 1,
           IF k <= Cardinality(Terminators) THEN Nth(Terminators, k) ELSE Len(GivenLines))

Trimmed(s) ==
    IF \A i \in 1..Len(s) : s[i] \in Whitespace THEN <<>>
    ELSE SubSeq(s,
                CHOOSE i \in 1..Len(s) :
                    s[i] \notin Whitespace /\ \A j \in 1..(i - 1) : s[j] \in Whitespace,
                CHOOSE i \in 1..Len(s) :
                    s[i] \notin Whitespace /\ \A j \in (i + 1)..Len(s) : s[j] \in Whitespace)

WithoutLastSemicolon(s) ==
    IF s # <<>> /\ s[Len(s)] = ";" THEN SubSeq(s, 1, Len(s) - 1) ELSE s

WithoutTrailingSemicolons(s) ==
    SubSeq(s, 1, Cardinality({i \in 1..Len(s) : \E j \in i..Len(s) : s[j] # ";"}))

\* The statements of the runs, the empty ones left out.
NonEmptyOf(statements) ==
    [k \in 1..Cardinality({i \in 1..Len(statements) : statements[i] # <<>>}) |->
        statements[Nth({i \in 1..Len(statements) : statements[i] # <<>>}, k)]]

\* C11 as stated: one statement per maximal run of lines, in input order,
\* each the run's lines joined by newlines, trimmed, with the terminating ";"
\* removed, the empty ones dropped.
C11_OneSemicolonRemoved ==
    lastOp = "_split_statements" =>
        result = NonEmptyOf([k \in 1..RunCount |->
                     WithoutLastSemicolon(Trimmed(Join(<<"\n">>, RunLines(k))))])

\* C11 as the code keeps it: the same, with every ";" at the end of the
\* trimmed run removed, not only the terminating one.  The two SELECTs on two
\* lines give "SELECT 1" and "SELECT 2", with and without the final ";".
C11_StatementPerRun ==
    lastOp = "_split_statements" =>
        /\ result = NonEmptyOf([k \in 1..RunCount |->
                        WithoutTrailingSemicolons(Trimmed(Join(<<"\n">>, RunLines(k))))])
        /\ (lastArg \in {TwoSelects, TwoSelectsOpenEnded} =>
              result = <<SelectOne, SelectTwo>>)

\* The script of two SELECTs whose last ";" is missing, split in two.
C11_OpenEndedScriptSplit ==
    /\ lastOp = "_split_statements"
    /\ lastArg = TwoSelectsOpenEnded
    /\ Len(result) = 2
    /\ result[2] = SelectTwo

\* ------------------------------------------------------------------ C18
Blank(s) == \A i \in 1..Len(s) : s[i] \in Whitespace

\* C18 as stated: no statement for a blank text; for a text that is not blank
\* and has no line ending a statement, one statement, the trimmed text.
C18_WholeTextIsTheStatement ==
    lastOp = "_split_statements" =>
        /\ (Blank(lastArg) => result = <<>>)
        /\ (~Blank(lastArg) /\ Terminators = {} => result = <<Trimmed(lastArg)>>)

\* C18 as the code keeps it: the one statement is the text's lines joined by
\* "\n" and trimmed, which is the trimmed text when the text's line breaks
\* are all "\n"; a ";" inside a line ends no statement.
C18_UnterminatedTextIsOneStatement ==
    lastOp = "_split_statements" =>
        /\ (Blank(lastArg) => result = <<>>)
        /\ (~Blank(lastArg) /\ Terminators = {} =>
              /\ result = <<Trimmed(Join(<<"\n">>, GivenLines))>>
              /\ ((\A i \in 1..Len(lastArg) : lastArg[i] # "\r") =>
                    result = <<Trimmed(lastArg)>>))

\* A text with a ";" inside its only line: one statement, the whole text.
C18_InnerSemicolonKept ==
    /\ lastOp = "_split_statements"
    /\ lastArg = <<"a", ";", "a">>
    /\ result = <<lastArg>>

\* ------------------------------------------------------------ format_rows
\* Result sets: every list of up to MaxCols column names with no rows, and
\* every table of up to MaxCols columns and MaxTableRows rows whose rows have
\* the columns' length.
MaxCols == 2
MaxTableRows == 2

HeaderNames == {<<>>, <<"a">>, <<"\n">>}
TableNames == {<<>>, <<"a">>}
Cells == {TextValue(<<>>), TextValue(<<"\n">>), NullValue}

\* format_rows on column names alone
FormatHeader ==
    /\ NotYetCalled
    /\ \E n \in 0..MaxCols : \E c \in [1..n -> HeaderNames] :
          Applied("format_rows", <<c, <<>>>>, format_rows(c, <<>>))

\* format_rows on a table
FormatRows ==
    /\ NotYetCalled
    /\ \E n \in 0..MaxCols : \E c \in [1..n -> TableNames] :
          \E k \in 0..MaxTableRows : \E r \in [1..k -> [1..n -> Cells]] :
              Applied("format_rows", <<c, r>>, format_rows(c, r))

FormatNext ==
    \/ FormatHeader
    \/ FormatRows

FormatSpec == FunctionInit /\ [][FormatNext]_vars

\* The arguments of the call, and the lines of what it returned: the pieces
\* between its "\n" characters.
Formatted == lastOp = "format_rows"
GivenColumns == lastArg[1]
GivenRows == lastArg[2]
OutputLines == Pieces(result, {i \in 1..Len(result) : result[i] = "\n"})

HasLineBreak(s) == \E i \in 1..Len(s) : s[i] \in {"\n", "\r"}

\* max(length of the header, length of every formatted cell of the column)
WidthOf(i) ==
    CHOOSE w \in {Len(GivenColumns[i])}
                 \cup {Len(_format_cell(GivenRows[r][i])) : r \in 1..Len(GivenRows)} :
        /\ w >= Len(GivenColumns[i])
        /\ \A r \in 1..Len(GivenRows) : w >= Len(_format_cell(GivenRows[r][i]))

\* Where column i starts in a line: after the columns before it and a
\* boundary of three characters for each.
RECURSIVE StartOf(_)
StartOf(i) == IF i = 1 THEN 1 ELSE StartOf(i - 1) + WidthOf(i - 1) + 3

TotalLength == StartOf(Len(GivenColumns)) + WidthOf(Len(GivenColumns)) - 1

\* A line of the table: of the total length, column i holding the text
\* followed by pad characters up to the column's width, and the boundary
\* after every column but the last.
IsTableLine(line, texts, pad, boundary) ==
    /\ Len(line) = TotalLength
    /\ \A i \in 1..Len(GivenColumns) :
          /\ SubSeq(line, StartOf(i), StartOf(i) + Len(texts[i]) - 1) = texts[i]
          /\ \A j \in (StartOf(i) + Len(texts[i]))..(StartOf(i) + WidthOf(i) - 1) :
                line[j] = pad
          /\ (i < Len(GivenColumns) =>
                SubSeq(line, StartOf(i) + WidthOf(i), StartOf(i) + WidthOf(i) + 2) = boundary)

IsHeaderLine(line) == IsTableLine(line, GivenColumns, " ", ColumnSep)

IsSeparatorLine(line) ==
    IsTableLine(line, [i \in 1..Len(GivenColumns) |-> <<>>], "-", RuleSep)

IsBodyLine(line, r) ==
    IsTableLine(line, [i \in 1..Len(GivenColumns) |-> _format_cell(GivenRows[r][i])],
                " ", ColumnSep)

\* ------------------------------------------------------------------ C12
\* C12 as stated: with zero rows the output is exactly two lines, the header
\* line then the separator line, whatever the column names.
C12_AlwaysTwoLines ==
    Formatted /\ GivenRows = <<>> =>
        /\ Len(OutputLines) = 2
        /\ IsHeaderLine(OutputLines[1])
        /\ IsSeparatorLine(OutputLines[2])

\* C12 as the code keeps it: with zero rows and at least one column, the
\* names free of line breaks and not one single empty name, the output is
\* exactly the header line, a "\n" and the separator line; with no column, or
\* with one column of the empty name, the output is empty.
C12_TwoLinesForHeader ==
    Formatted /\ GivenRows = <<>> =>
        /\ (/\ GivenColumns # <<>>
            /\ GivenColumns # << <<>> >>
            /\ \A i \in 1..Len(GivenColumns) : ~HasLineBreak(GivenColumns[i])
            => /\ Len(OutputLines) = 2
               /\ IsHeaderLine(OutputLines[1])
               /\ IsSeparatorLine(OutputLines[2])
               /\ result[Len(result)] # "\n")
        /\ (GivenColumns \in {<<>>, << <<>> >>} => result = <<>>)

\* Two column names and no rows: two lines.
C12_TwoColumnsNoRows ==
    /\ Formatted
    /\ GivenRows = <<>>
    /\ GivenColumns = << <<"a">>, <<"a">> >>
    /\ result = <<"a", " ", "|", " ", "a", "\n", "-", "-", "+", "-", "-">>

\* ------------------------------------------------------------------ C13
\* C13: with no columns, format_rows returns the empty string whatever the
\* number of (empty) rows.
C13_NoColumnsNoOutput ==
    Formatted /\ GivenColumns = <<>> => result = <<>>

\* ------------------------------------------------------------------ C14
\* C14 as stated: for every result set with at least one column, the output
\* is the header line, the separator line and one body line per row, each of
\* the total length and with every column at its width.
C14_AlignedTable ==
    Formatted /\ GivenColumns # <<>> =>
        /\ Len(OutputLines) = 2 + Len(GivenRows)
        /\ IsHeaderLine(OutputLines[1])
        /\ IsSeparatorLine(OutputLines[2])
        /\ \A r \in 1..Len(GivenRows) : IsBodyLine(OutputLines[2 + r], r)

\* No column name and no formatted cell holds a line break.
SingleLineCells ==
    /\ \A i \in 1..Len(GivenColumns) : ~HasLineBreak(GivenColumns[i])
    /\ \A r \in 1..Len(GivenRows) :
          \A i \in 1..Len(GivenRows[r]) : ~HasLineBreak(_format_cell(GivenRows[r][i]))

\* C14 as the code keeps it: the same, for result sets whose names and
\* formatted cells hold no line break and whose lines are not empty (the
\* total length is 0 only for one column whose name and cells are all
\* empty).
C14_AlignedWhenSingleLine ==
    Formatted /\ GivenColumns # <<>> /\ SingleLineCells /\ TotalLength > 0 =>
        /\ Len(OutputLines) = 2 + Len(GivenRows)
        /\ IsHeaderLine(OutputLines[1])
        /\ IsSeparatorLine(OutputLines[2])
        /\ \A r \in 1..Len(GivenRows) : IsBodyLine(OutputLines[2 + r], r)

\* Two columns and two rows, a cell wider than its header.
C14_CellWiderThanHeader ==
    /\ Formatted
    /\ Len(GivenColumns) = 2
    /\ Len(GivenRows) = 2
    /\ SingleLineCells
    /\ WidthOf(1) = 4
    /\ Len(GivenColumns[1]) = 1
    /\ Len(OutputLines) = 4

\* ====================================================== interactive_shell
\* main() without --script and --execute: the client is entered, the loop of
\* interactive_shell reads lines until it is left, and the client is exited.
MaxPending == 2

MainPrompt == <<"d", "b", ">", " ">>
MorePrompt == <<".", ".", ".", " ">>
ExitWords == {<<"e", "x", "i", "t">>, <<"q", "u", "i", "t">>}

\* What the user may type at a prompt: a fragment of a statement, nothing, a
\* complete statement, a terminator followed by a blank, and the words that
\* leave: as they are, in capitals, and with blanks around.
FragmentLine == <<"S", "E", "L", "E", "C">>
BlankLine == <<>>
PaddedTerminator == <<";", " ">>
ExitLine == <<"e", "x", "i", "t">>
QuitLine == <<"Q", "U", "I", "T">>
PaddedExitLine == <<" ", "e", "x", "i", "t", " ">>
ShellLines ==
    {FragmentLine, BlankLine, CreateSql, PaddedTerminator, ExitLine, QuitLine,
     PaddedExitLine}

\* str.lower() on the letters of the Latin alphabet
Letters ==
    <<<<"A", "a">>, <<"B", "b">>, <<"C", "c">>, <<"D", "d">>, <<"E", "e">>,
      <<"F", "f">>, <<"G", "g">>, <<"H", "h">>, <<"I", "i">>, <<"J", "j">>,
      <<"K", "k">>, <<"L", "l">>, <<"M", "m">>, <<"N", "n">>, <<"O", "o">>,
      <<"P", "p">>, <<"Q", "q">>, <<"R", "r">>, <<"S", "s">>, <<"T", "t">>,
      <<"U", "u">>, <<"V", "v">>, <<"W", "w">>, <<"X", "x">>, <<"Y", "y">>,
      <<"Z", "z">>>>
LowerChar(ch) ==
    IF \E i \in 1..Len(Letters) : Letters[i][1] = ch
    THEN Letters[CHOOSE i \in 1..Len(Letters) : Letters[i][1] = ch][2]
    ELSE ch
Lower(s) == [i \in 1..Len(s) |-> LowerChar(s[i])]

\* A test for the leaving words that compares the line as typed.
LeavesCaseSensitive(pending, stripped) ==
    pending = <<>> /\ stripped \in ExitWords

\* if not buffer and stripped.lower() in {"exit", "quit"}
Leaves(pending, stripped) ==
    pending = <<>> /\ Lower(stripped) \in ExitWords

\* A test that takes every line for the end of a statement.
CompletesAnyLine(stripped) == TRUE

\* if stripped.endswith(";")
Completes(stripped) == EndsWith(stripped, <<";">>)

\* prompt = "db> " if not buffer else "... "
PromptFor(pending) == IF pending = <<>> THEN MainPrompt ELSE MorePrompt

\* The session is pointed at one of two sqlite targets or at a remote one.
ShellInit ==
    /\ target \in {MemoryTarget, FileTarget, PostgresTarget}
    /\ connection = NoConn
    /\ cursor = NoConn
    /\ conns = <<>>
    /\ db = EmptyDb
    /\ mode = "shell"
    /\ driverInstalled = FALSE
    /\ proc = "running"
    /\ lastOp = "init"
    /\ lastArg = <<>>
    /\ connectionBefore = NoConn
    /\ cursorBefore = NoConn
    /\ calls = <<>>
    /\ log = <<>>
    /\ raised = "none"
    /\ msg = <<>>
    /\ result = <<>>
    /\ buffer = <<>>
    /\ prompt = <<>>

\* __enter__ has returned or raised: in the first case the loop starts with an
\* empty buffer and waits at its first prompt, in the second main() is left
\* and __exit__ is not called.
Entered(c) ==
    /\ Step(c)
    /\ proc' = (IF c.raised = "none" THEN "running" ELSE "aborted")
    /\ prompt' = (IF c.raised = "none" THEN PromptFor(<<>>) ELSE prompt)

\* with DatabaseClient(args.db) as client: interactive_shell(client)
ShellEnter ==
    /\ mode = "shell" /\ proc = "running" /\ lastOp = "init"
    /\ \E env \in EnvsFor(FALSE, TRUE, target = MemoryTarget, FALSE) :
          Entered(connect(Client, target, driverInstalled, env))
    /\ Ran("enter", target)
    /\ UNCHANGED <<target, driverInstalled, mode, buffer>>

\* The loop is left by break: interactive_shell returns with its buffer as it
\* is, and __exit__ closes the client.
LeftLoop(env) ==
    /\ Becomes(close(Client, env))
    /\ proc' = "exited"
    /\ UNCHANGED <<buffer, prompt>>

\* buffer.append(line) with no statement completed: the next prompt is shown
KeptLine(line) ==
    /\ Len(buffer) < MaxPending
    /\ Becomes(Client)
    /\ buffer' = Append(buffer, line)
    /\ prompt' = PromptFor(Append(buffer, line))
    /\ proc' = proc

\* output = client.run_statement(statement); print(output); buffer.clear().
\* What run_statement raises leaves the loop with the buffer uncleared and
\* main() through __exit__, which closes the client.
Answered(line, c, env) ==
    IF c.raised = "none"
    THEN /\ Step(c)
         /\ buffer' = <<>>
         /\ prompt' = PromptFor(<<>>)
         /\ proc' = proc
    ELSE /\ WithinBounds(c)
         /\ Becomes(close(c, env))
         /\ buffer' = Append(buffer, line)
         /\ prompt' = prompt
         /\ proc' = "aborted"

\* One pass of the loop for a line that input() returned.
ReadLine(line, env) ==
    IF Leaves(buffer, Strip(line))
    THEN LeftLoop(env) /\ Ran("quit", line)
    ELSE IF Completes(Strip(line))
    THEN /\ Answered(line,
                     run_statement(Client, target, driverInstalled,
                                   Join(<<"\n">>, Append(buffer, line)), env),
                     env)
         /\ Ran("line", line)
    ELSE KeptLine(line) /\ Ran("line", line)

\* line = input(prompt) returned
ShellLine ==
    /\ mode = "shell" /\ proc = "running" /\ lastOp # "init"
    /\ \E line \in ShellLines, env \in EnvsFor(TRUE, FALSE, TRUE, TRUE) :
          ReadLine(line, env)
    /\ UNCHANGED <<target, driverInstalled, mode>>

\* input(prompt) raised EOFError: print(); break
ShellEof ==
    /\ mode = "shell" /\ proc = "running" /\ lastOp # "init"
    /\ \E env \in EnvsFor(TRUE, FALSE, TRUE, FALSE) : LeftLoop(env)
    /\ Ran("eof", <<>>)
    /\ UNCHANGED <<target, driverInstalled, mode>>

ShellNext ==
    \/ ShellEnter
    \/ ShellLine
    \/ ShellEof

ShellSpec == ShellInit /\ [][ShellNext]_vars

\* ------------------------------------------------------------------- C15
\* A step of the loop that read a line; the line is lastArg', and buffer is
\* what was accumulated before it.
LineRead == mode = "shell" /\ lastOp' \in {"quit", "line"}

JoinedStatement == Join(<<"\n">>, Append(buffer, lastArg'))

\* run_statement was called once, on the accumulated lines and this one: the
\* cursor executed that text and nothing else.
RanJoinedStatementOnce ==
    /\ Cardinality(Executions(calls')) = 1
    /\ \A i \in Executions(calls') :
          calls'[i].op = "execute" /\ calls'[i].arg = JoinedStatement

ExitWordAtFreshStatement ==
    Lower(lastArg') \in ExitWords /\ buffer = <<>>
        => /\ proc' = "exited"
           /\ Executions(calls') = {}

ExitWordInsideStatement ==
    Lower(lastArg') \in ExitWords /\ buffer # <<>>
        => /\ proc' = "running"
           /\ buffer' = Append(buffer, lastArg')
           /\ prompt' = MorePrompt

BackAtFreshStatement ==
    /\ proc' = "running"
    /\ buffer' = <<>>
    /\ prompt' = MainPrompt

\* C15 as stated: in the interactive loop, exit or quit in any case at the
\* start of a fresh statement ends the session with nothing executed, the same
\* word inside a statement does not end it, and every line ending in ";"
\* causes exactly one run_statement call on all accumulated lines, after
\* which the loop is back at a fresh statement with the "db> " prompt.
C15_EveryTerminatedLineReturnsToPrompt ==
    [][LineRead =>
          /\ ExitWordAtFreshStatement
          /\ ExitWordInsideStatement
          /\ (EndsWith(lastArg', <<";">>)
                 => RanJoinedStatementOnce /\ BackAtFreshStatement)]_vars

\* C15, amended: exit or quit in any case at the start of a fresh statement
\* ends the session with nothing executed, the same word inside a statement
\* does not end it, and every line ending in ";" causes exactly one
\* run_statement call on all accumulated lines; when that call returns, its
\* output is shown and the loop is back at a fresh statement with the "db> "
\* prompt, and when it raises, the loop and the session end with the lines
\* still in the buffer.
C15_TerminatedLineRunsOnce ==
    [][LineRead =>
          /\ ExitWordAtFreshStatement
          /\ ExitWordInsideStatement
          /\ (EndsWith(lastArg', <<";">>)
                 => /\ RanJoinedStatementOnce
                    /\ IF raised' = "none"
                       THEN BackAtFreshStatement /\ result' # <<>>
                       ELSE /\ proc' = "aborted"
                            /\ buffer' = Append(buffer, lastArg'))]_vars

\* A statement of three lines, the second of them the word exit, was executed
\* as one text and the loop is back at its first prompt.
C15_ExitWordInsideExecutedStatement ==
    /\ mode = "shell" /\ lastOp = "line" /\ lastArg = CreateSql
    /\ proc = "running" /\ buffer = <<>> /\ prompt = MainPrompt
    /\ \E i \in CallsOf(calls, "execute") :
          calls[i].arg = Join(<<"\n">>, <<FragmentLine, ExitLine, CreateSql>>)

\* ------------------------------------------------------------------- C20
\* C20: the interactive loop executes only text that ends with a line whose
\* trimmed form ends in ";" -- a line without that terminator passes nothing
\* to run_statement -- and on end of input the pending lines are not executed
\* and the session ends with close() called on the client's connection by
\* __exit__, the client holding no connection and no cursor afterwards.
C20_OnlyTerminatedTextRuns ==
    [][mode = "shell" =>
          /\ (Executions(calls') # {}
                 => /\ lastOp' = "line"
                    /\ EndsWith(Strip(lastArg'), <<";">>)
                    /\ RanJoinedStatementOnce)
          /\ (lastOp' = "line" /\ ~EndsWith(Strip(lastArg'), <<";">>)
                 => /\ Executions(calls') = {}
                    /\ buffer' = Append(buffer, lastArg'))
          /\ (lastOp' = "eof"
                 => /\ Executions(calls') = {}
                    /\ proc' = "exited"
                    /\ connection' = NoConn /\ cursor' = NoConn
                    /\ connection # NoConn
                    /\ Len(calls') = 1
                    /\ calls'[1].op = "close" /\ calls'[1].conn = connection
                    /\ conns'[connection].closeCalled)]_vars

\* Input ended while two lines were pending: nothing ran, the client is closed.
C20_EndOfInputWithPendingLines ==
    /\ mode = "shell" /\ lastOp = "eof" /\ proc = "exited"
    /\ buffer = <<FragmentLine, ExitLine>>
    /\ connection = NoConn
    /\ CallsOf(calls, "close") # {}
    /\ Executions(calls) = {}

====
